---- MODULE Spec2Model ----
(***************************************************************************)
(* Model of scripts/download-hf-datasets.py: the entry point main() runs   *)
(* five dataset adapters in a fixed order; each adapter iterates over the  *)
(* records handed out by load_dataset, builds the lists `queries` and      *)
(* `corpus`, writes them with save_jsonl and returns a boolean.            *)
(*                                                                         *)
(* Scores are floats in the source; here they are counted in hundredths    *)
(* (1.0 is 100, a raw STS score of 2.5 is 250).                            *)
(***************************************************************************)
EXTENDS Integers, Sequences, FiniteSets, TLC

VARIABLES pc, cur, dataset, queries, corpus, seen, ok, results, files, exit_status

vars == <<pc, cur, dataset, queries, corpus, seen, ok, results, files, exit_status>>

\* Largest number of records the record source hands to one adapter.
MaxRecords == 3

----------------------------------------------------------------------------
\* Helpers

Range(s) == {s[k] : k \in 1..Len(s)}

NoDup(s) == \A a, b \in 1..Len(s) : s[a] = s[b] => a = b

Ids(s) == [k \in 1..Len(s) |-> s[k].id]

Has(item, f) == f \in DOMAIN item

RECURSIVE Decimal(_)
\* str(n) for a non-negative int, as an f-string formats it
Decimal(n) ==
    IF n < 10 THEN <<"0", "1", "2", "3", "4", "5", "6", "7", "8", "9">>[n + 1]
    ELSE Decimal(n \div 10) \o Decimal(n % 10)

EmptyMap == [k \in {} |-> ""]

\* the order of the calls in main
Adapters == <<"sample", "sts17", "squad", "quora", "nfcorpus">>

\* datasets/<dir>/ and the two files each adapter writes
Dir(a) ==
    CASE a = "sample" -> "datasets/sample"
      [] a = "sts17" -> "datasets/mteb"
      [] a = "squad" -> "datasets/squad"
      [] a = "quora" -> "datasets/quora"
      [] a = "nfcorpus" -> "datasets/nfcorpus"

QueriesPath(a) ==
    IF a = "sts17" THEN "datasets/mteb/sts17-en-en-queries.jsonl"
    ELSE Dir(a) \o "/queries.jsonl"

CorpusPath(a) ==
    IF a = "sts17" THEN "datasets/mteb/sts17-en-en-corpus.jsonl"
    ELSE Dir(a) \o "/corpus.jsonl"

----------------------------------------------------------------------------
\* Raw records the record source can hand out (a field may be absent)

Texts == {"a", "b"}

Sts17Items ==
    [sentence1 : {"s"}, sentence2 : Texts, score : {0, 250, 500}]
    \cup [sentence2 : {"a"}, score : {500}]
    \cup [sentence1 : {"s"}, score : {500}]
    \cup [sentence1 : {"s"}, sentence2 : {"a"}]

SquadItems ==
    [context : Texts, title : {"t1", "t2"}, question : {"q"}]
    \cup [title : {"t1"}, question : {"q"}]
    \cup [context : {"a"}, question : {"q"}]
    \cup [context : {"a"}, title : {"t1"}]

QuoraItems ==
    [questions : [text : {<<x, y>> : x, y \in Texts}], is_duplicate : BOOLEAN]
    \cup [is_duplicate : {TRUE}]
    \cup [questions : [id : {<<1, 2>>}], is_duplicate : {TRUE}]
    \cup [questions : [text : {<<"a">>, <<>>}], is_duplicate : {TRUE}]
    \cup [questions : [text : {<<"a", "b">>}]]

NfcorpusItems ==
    LET q == {[query |-> "q"]}
        cid == {("corpus-id" :> c) : c \in {"MED-1", "MED-2"}}
        ctx == {("corpus-text" :> t) : t \in {"x", "y"}}
    IN  {a @@ b @@ c : a \in q, b \in cid, c \in ctx}
        \cup {a @@ b : a \in q, b \in cid}
        \cup {a @@ c : a \in q, c \in {("corpus-text" :> "x")}}
        \cup q
        \cup {b @@ c : b \in {("corpus-id" :> "MED-1")}, c \in {("corpus-text" :> "x")}}

----------------------------------------------------------------------------
\* create_sample_dataset: the two literals

SampleQueries == <<
    [id |-> "q1", query |-> "What is machine learning?",
     relevantDocs |-> <<"d1", "d2">>, relevanceScores |-> <<100, 80>>,
     tags |-> <<"technical">>],
    [id |-> "q2", query |-> "How to bake sourdough bread?",
     relevantDocs |-> <<"d3">>, relevanceScores |-> <<100>>,
     tags |-> <<"cooking">>],
    [id |-> "q3", query |-> "Best Python web frameworks",
     relevantDocs |-> <<"d4", "d5">>, relevanceScores |-> <<100, 90>>,
     tags |-> <<"programming">>],
    [id |-> "q4", query |-> "Climate change effects",
     relevantDocs |-> <<"d6">>, relevanceScores |-> <<100>>,
     tags |-> <<"science">>],
    [id |-> "q5", query |-> "Introduction to quantum computing",
     relevantDocs |-> <<"d7", "d8">>, relevanceScores |-> <<100, 70>>,
     tags |-> <<"technical">>] >>

SampleCorpus == <<
    [id |-> "d1", content |-> "Machine learning is a subset of artificial intelligence that enables computers to learn from data without explicit programming.",
     metadata |-> [category |-> "ai"]],
    [id |-> "d2", content |-> "Deep learning uses neural networks with multiple layers to model complex patterns in data.",
     metadata |-> [category |-> "ai"]],
    [id |-> "d3", content |-> "Sourdough bread requires a starter culture of wild yeast and bacteria to ferment the dough.",
     metadata |-> [category |-> "cooking"]],
    [id |-> "d4", content |-> "Django is a high-level Python web framework that encourages rapid development and clean design.",
     metadata |-> [category |-> "programming"]],
    [id |-> "d5", content |-> "Flask is a lightweight Python web framework that is easy to get started with.",
     metadata |-> [category |-> "programming"]],
    [id |-> "d6", content |-> "Climate change refers to long-term shifts in global temperatures and weather patterns.",
     metadata |-> [category |-> "science"]],
    [id |-> "d7", content |-> "Quantum computing uses quantum bits or qubits to perform calculations exponentially faster.",
     metadata |-> [category |-> "physics"]],
    [id |-> "d8", content |-> "Quantum mechanics describes the behavior of matter and energy at the atomic scale.",
     metadata |-> [category |-> "physics"]] >>

----------------------------------------------------------------------------
\* The body of each adapter's loop, as a function of the locals.
\* Locals(q, c, s, r): queries, corpus, the seen-table, and whether the
\* body raised (KeyError / IndexError) before finishing.

Locals(q, c, s, r) == [queries |-> q, corpus |-> c, seen |-> s, raised |-> r]

\* ---- download_mteb_sts17 ----

Sts17QueryId(i) == "sts17-en-en-" \o Decimal(i)

Sts17DocId(i) == "sts17-doc-" \o Decimal(i)

\* item["score"] / 5.0
Sts17Normalize(score) == score \div 5

\* a body that passes over a record with an absent field instead of raising
Sts17BodySkip(i, item, q, c, s) ==
    IF ~({"sentence1", "sentence2", "score"} \subseteq DOMAIN item)
    THEN Locals(q, c, s, FALSE)
    ELSE Locals(Append(q, [id |-> Sts17QueryId(i),
                           query |-> item.sentence1,
                           relevantDocs |-> <<Sts17DocId(i)>>,
                           relevanceScores |-> <<Sts17Normalize(item.score)>>,
                           tags |-> <<"sts", "en-en">>]),
                Append(c, [id |-> Sts17DocId(i),
                           content |-> item.sentence2,
                           metadata |-> [score |-> item.score]]),
                s, FALSE)

Sts17Body(i, item, q, c, s) ==
    IF ~Has(item, "sentence1") \/ ~Has(item, "score")
    THEN Locals(q, c, s, TRUE)
    ELSE LET q1 == Append(q, [id |-> Sts17QueryId(i),
                              query |-> item.sentence1,
                              relevantDocs |-> <<Sts17DocId(i)>>,
                              relevanceScores |-> <<Sts17Normalize(item.score)>>,
                              tags |-> <<"sts", "en-en">>])
         IN  IF ~Has(item, "sentence2")
             THEN Locals(q1, c, s, TRUE)
             ELSE Locals(q1,
                         Append(c, [id |-> Sts17DocId(i),
                                    content |-> item.sentence2,
                                    metadata |-> [score |-> item.score]]),
                         s, FALSE)

\* ---- download_squad_sample ----

\* a membership test that never finds the context
SquadNotSeenAlways(context, s) == TRUE

SquadNotSeen(context, s) == context \notin DOMAIN s

\* a counter that starts at one
SquadNewDocIdOneBased(s) == "squad-doc-" \o Decimal(Cardinality(DOMAIN s) + 1)

SquadNewDocId(s) == "squad-doc-" \o Decimal(Cardinality(DOMAIN s))

SquadQueryId(i) == "squad-q-" \o Decimal(i)

SquadBody(i, item, q, c, s) ==
    IF ~Has(item, "context")
    THEN Locals(q, c, s, TRUE)
    ELSE LET context == item.context
             fresh == SquadNotSeen(context, s)
             doc_id == IF fresh THEN SquadNewDocId(s) ELSE s[context]
             s1 == IF fresh THEN (context :> doc_id) @@ s ELSE s
         IN  IF fresh /\ ~Has(item, "title")
             THEN Locals(q, c, s1, TRUE)
             ELSE LET c1 == IF fresh
                            THEN Append(c, [id |-> doc_id,
                                            content |-> context,
                                            metadata |-> [title |-> item.title]])
                            ELSE c
                  IN  IF ~Has(item, "question")
                      THEN Locals(q, c1, s1, TRUE)
                      ELSE Locals(Append(q, [id |-> SquadQueryId(i),
                                             query |-> item.question,
                                             relevantDocs |-> <<doc_id>>,
                                             relevanceScores |-> <<100>>,
                                             tags |-> <<"qa", "squad">>]),
                                  c1, s1, FALSE)

\* ---- download_quora_sample ----

\* the three reads at the top of the loop body
QuoraRaises(item) ==
    \/ ~Has(item, "questions")
    \/ ~Has(item.questions, "text")
    \/ Len(item.questions.text) < 2
    \/ ~Has(item, "is_duplicate")

\* the id taken from the inner loop index j instead of the table size
QuoraAddQuestionByJ(c, s, j, q) ==
    IF q \notin DOMAIN s
    THEN LET q_id == "quora-q-" \o Decimal(j)
         IN  [corpus |-> Append(c, [id |-> q_id, content |-> q,
                                    metadata |-> EmptyMap]),
              seen |-> (q :> q_id) @@ s]
    ELSE [corpus |-> c, seen |-> s]

\* one turn of the inner loop `for j, q in enumerate([q1, q2])`
QuoraAddQuestion(c, s, j, q) ==
    IF q \notin DOMAIN s
    THEN LET q_id == "quora-q-" \o Decimal(Cardinality(DOMAIN s))
         IN  [corpus |-> Append(c, [id |-> q_id, content |-> q,
                                    metadata |-> EmptyMap]),
              seen |-> (q :> q_id) @@ s]
    ELSE [corpus |-> c, seen |-> s]

QuoraPairId(i) == "quora-pair-" \o Decimal(i)

\* a newly synthesized id instead of the id stored for q2
QuoraRelevantIdFresh(s, q2) == "quora-q-" \o Decimal(Cardinality(DOMAIN s))

\* q2_id = seen_questions[q2]
QuoraRelevantId(s, q2) == s[q2]

QuoraBody(i, item, q, c, s) ==
    IF QuoraRaises(item)
    THEN Locals(q, c, s, TRUE)
    ELSE LET q1 == item.questions.text[1]
             q2 == item.questions.text[2]
             a1 == QuoraAddQuestion(c, s, 0, q1)
             a2 == QuoraAddQuestion(a1.corpus, a1.seen, 1, q2)
         IN  IF item.is_duplicate
             THEN Locals(Append(q, [id |-> QuoraPairId(i),
                                    query |-> q1,
                                    relevantDocs |-> <<QuoraRelevantId(a2.seen, q2)>>,
                                    relevanceScores |-> <<100>>,
                                    tags |-> <<"duplicate", "quora">>]),
                         a2.corpus, a2.seen, FALSE)
             ELSE Locals(q, a2.corpus, a2.seen, FALSE)

\* ---- download_nfcorpus_sample ----

NfcorpusDocId(item) == "nfcorpus-" \o item["corpus-id"]

\* the score is not appended
NfcorpusJudgmentsNoScore(item) ==
    IF Has(item, "corpus-id")
    THEN [relevant |-> <<"nfcorpus-" \o item["corpus-id"]>>, scores |-> <<>>]
    ELSE [relevant |-> <<>>, scores |-> <<>>]

\* the lists `relevant` and `scores` built for one record
NfcorpusJudgments(item) ==
    IF Has(item, "corpus-id")
    THEN [relevant |-> <<NfcorpusDocId(item)>>, scores |-> <<100>>]
    ELSE [relevant |-> <<>>, scores |-> <<>>]

\* item.get("corpus-text", f"Document {doc_id}")
NfcorpusContent(item, doc_id) ==
    IF Has(item, "corpus-text") THEN item["corpus-text"]
    ELSE "Document " \o doc_id

\* a seen document is overwritten with the new record's content
NfcorpusAddDocOverwrite(c, s, doc_id, item) ==
    IF doc_id \notin DOMAIN s
    THEN [corpus |-> Append(c, [id |-> doc_id,
                                content |-> NfcorpusContent(item, doc_id),
                                metadata |-> [medical |-> TRUE]]),
          seen |-> (doc_id :> TRUE) @@ s]
    ELSE [corpus |-> [k \in 1..Len(c) |->
                         IF c[k].id = doc_id
                         THEN [c[k] EXCEPT !.content = NfcorpusContent(item, doc_id)]
                         ELSE c[k]],
          seen |-> s]

\* "Add to corpus if not seen"
NfcorpusAddDoc(c, s, doc_id, item) ==
    IF doc_id \notin DOMAIN s
    THEN [corpus |-> Append(c, [id |-> doc_id,
                                content |-> NfcorpusContent(item, doc_id),
                                metadata |-> [medical |-> TRUE]]),
          seen |-> (doc_id :> TRUE) @@ s]
    ELSE [corpus |-> c, seen |-> s]

\* the Query is appended whether or not `relevant` is empty
NfcorpusHasQueryAlways(relevant) == TRUE

\* `if relevant:`
NfcorpusHasQuery(relevant) == relevant # <<>>

NfcorpusQueryId(i) == "nfcorpus-q-" \o Decimal(i)

NfcorpusBody(i, item, q, c, s) ==
    IF ~Has(item, "query")
    THEN Locals(q, c, s, TRUE)
    ELSE LET j == NfcorpusJudgments(item)
             a == IF Has(item, "corpus-id")
                  THEN NfcorpusAddDoc(c, s, NfcorpusDocId(item), item)
                  ELSE [corpus |-> c, seen |-> s]
         IN  IF NfcorpusHasQuery(j.relevant)
             THEN Locals(Append(q, [id |-> NfcorpusQueryId(i),
                                    query |-> item.query,
                                    relevantDocs |-> j.relevant,
                                    relevanceScores |-> j.scores,
                                    tags |-> <<"medical", "nfcorpus">>]),
                         a.corpus, a.seen, FALSE)
             ELSE Locals(q, a.corpus, a.seen, FALSE)

\* ---- main ----

\* success as soon as one adapter succeeded
MainSuccessAny(res) ==
    Cardinality({k \in 1..Len(res) : res[k].success}) > 0

\* successful == len(results)
MainSuccess(res) ==
    Cardinality({k \in 1..Len(res) : res[k].success}) = Len(res)

----------------------------------------------------------------------------
\* State machine
\*   pc:  "import", "main", "create", "load", "loop", "ensure_dir",
\*        "save_queries", "save_corpus", "except", "return", "summary", "exit"
\*   cur: the adapter being run; dataset: the records it has consumed so far
\*   ok:  the value the adapter is about to return
\*   results: main's dict, in insertion order
\*   files: the paths save_jsonl has opened for writing

Init ==
    /\ pc = "import"
    /\ cur = "none"
    /\ dataset = <<>>
    /\ queries = <<>>
    /\ corpus = <<>>
    /\ seen = EmptyMap
    /\ ok = FALSE
    /\ results = <<>>
    /\ files = {}
    /\ exit_status = -1

\* the import of the datasets library; on ImportError the script exits with 1
import_datasets ==
    /\ pc = "import"
    /\ \E installed \in BOOLEAN :
         IF installed
         THEN pc' = "main" /\ exit_status' = exit_status
         ELSE pc' = "exit" /\ exit_status' = 1
    /\ UNCHANGED <<cur, dataset, queries, corpus, seen, ok, results, files>>

\* main: results = {} and the first call
main_start ==
    /\ pc = "main"
    /\ results' = <<>>
    /\ cur' = Adapters[1]
    /\ pc' = "create"
    /\ UNCHANGED <<dataset, queries, corpus, seen, ok, files, exit_status>>

\* An exception raised inside adapter a: the four download adapters catch it
\* (except Exception), create_sample_dataset has no handler, so it leaves
\* main and the interpreter exits with status 1.
Raise(a) ==
    IF a = "sample"
    THEN pc' = "exit" /\ exit_status' = 1
    ELSE pc' = "except" /\ exit_status' = exit_status

create_sample_dataset ==
    /\ pc = "create"
    /\ cur = "sample"
    /\ queries' = SampleQueries
    /\ corpus' = SampleCorpus
    /\ pc' = "ensure_dir"
    /\ UNCHANGED <<cur, dataset, seen, ok, results, files, exit_status>>

\* load_dataset(...) at the top of each download adapter's try block
load_dataset ==
    /\ pc = "load"
    /\ \E available \in BOOLEAN :
         IF available
         THEN pc' = "loop" /\ exit_status' = exit_status
         ELSE Raise(cur)
    /\ queries' = <<>>
    /\ corpus' = <<>>
    /\ seen' = EmptyMap
    /\ UNCHANGED <<cur, dataset, ok, results, files>>

\* one turn of `for i, item in enumerate(dataset)`
LoopTurn(b, item) ==
    /\ dataset' = Append(dataset, item)
    /\ queries' = b.queries
    /\ corpus' = b.corpus
    /\ seen' = b.seen
    /\ IF b.raised THEN Raise(cur) ELSE pc' = "loop" /\ exit_status' = exit_status
    /\ UNCHANGED <<cur, ok, results, files>>

download_mteb_sts17(item) ==
    /\ pc = "loop"
    /\ cur = "sts17"
    /\ Len(dataset) < MaxRecords
    /\ LoopTurn(Sts17Body(Len(dataset), item, queries, corpus, seen), item)

download_squad_sample(item) ==
    /\ pc = "loop"
    /\ cur = "squad"
    /\ Len(dataset) < MaxRecords
    /\ LoopTurn(SquadBody(Len(dataset), item, queries, corpus, seen), item)

download_quora_sample(item) ==
    /\ pc = "loop"
    /\ cur = "quora"
    /\ Len(dataset) < MaxRecords
    /\ LoopTurn(QuoraBody(Len(dataset), item, queries, corpus, seen), item)

download_nfcorpus_sample(item) ==
    /\ pc = "loop"
    /\ cur = "nfcorpus"
    /\ Len(dataset) < MaxRecords
    /\ LoopTurn(NfcorpusBody(Len(dataset), item, queries, corpus, seen), item)

\* the record source is exhausted: the for loop ends
loop_end ==
    /\ pc = "loop"
    /\ pc' = "ensure_dir"
    /\ UNCHANGED <<cur, dataset, queries, corpus, seen, ok, results, files, exit_status>>

\* ensure_dir: mkdir(parents=True, exist_ok=True), which may raise OSError
ensure_dir ==
    /\ pc = "ensure_dir"
    /\ \E made \in BOOLEAN :
         IF made
         THEN pc' = "save_queries" /\ exit_status' = exit_status
         ELSE Raise(cur)
    /\ UNCHANGED <<cur, dataset, queries, corpus, seen, ok, results, files>>

\* save_jsonl(data, filepath): open(filepath, 'w') may fail (no file), a
\* write may fail (file left behind), or all lines are written.
save_jsonl(filepath, next_pc, returns) ==
    \E outcome \in {"saved", "open_error", "write_error"} :
        /\ files' = IF outcome = "open_error" THEN files ELSE files \cup {filepath}
        /\ IF outcome = "saved"
           THEN pc' = next_pc /\ ok' = returns /\ exit_status' = exit_status
           ELSE Raise(cur) /\ ok' = ok
        /\ UNCHANGED <<cur, dataset, queries, corpus, seen, results>>

save_queries ==
    /\ pc = "save_queries"
    /\ save_jsonl(QueriesPath(cur), "save_corpus", ok)

\* the second save_jsonl is followed by `return True`
save_corpus ==
    /\ pc = "save_corpus"
    /\ save_jsonl(CorpusPath(cur), "return", TRUE)

\* except Exception as e: print the error, return False
except_handler ==
    /\ pc = "except"
    /\ ok' = FALSE
    /\ pc' = "return"
    /\ UNCHANGED <<cur, dataset, queries, corpus, seen, results, files, exit_status>>

IndexOf(a) == CHOOSE k \in 1..Len(Adapters) : Adapters[k] = a

\* results[name] = <adapter>() in main, then the next call (or the summary)
adapter_return ==
    /\ pc = "return"
    /\ results' = Append(results, [name |-> cur, success |-> ok])
    /\ IF IndexOf(cur) < Len(Adapters)
       THEN cur' = Adapters[IndexOf(cur) + 1] /\ pc' = "load"
       ELSE cur' = "none" /\ pc' = "summary"
    /\ dataset' = <<>>
    /\ queries' = <<>>
    /\ corpus' = <<>>
    /\ seen' = EmptyMap
    /\ ok' = FALSE
    /\ UNCHANGED <<files, exit_status>>

\* the summary, `return successful == len(results)` and sys.exit
main_summary ==
    /\ pc = "summary"
    /\ exit_status' = IF MainSuccess(results) THEN 0 ELSE 1
    /\ pc' = "exit"
    /\ UNCHANGED <<cur, dataset, queries, corpus, seen, ok, results, files>>

Next ==
    \/ import_datasets
    \/ main_start
    \/ create_sample_dataset
    \/ load_dataset
    \/ \E item \in Sts17Items : download_mteb_sts17(item)
    \/ \E item \in SquadItems : download_squad_sample(item)
    \/ \E item \in QuoraItems : download_quora_sample(item)
    \/ \E item \in NfcorpusItems : download_nfcorpus_sample(item)
    \/ loop_end
    \/ ensure_dir
    \/ save_queries
    \/ save_corpus
    \/ except_handler
    \/ adapter_return
    \/ main_summary

Spec == Init /\ [][Next]_vars

TypeOK ==
    /\ pc \in {"import", "main", "create", "load", "loop", "ensure_dir",
               "save_queries", "save_corpus", "except", "return", "summary", "exit"}
    /\ cur \in Range(Adapters) \cup {"none"}
    /\ Len(dataset) <= MaxRecords
    /\ ok \in BOOLEAN
    /\ exit_status \in {-1, 0, 1}

----------------------------------------------------------------------------
\* Vocabulary of the properties

Downloads == {"sts17", "squad", "quora", "nfcorpus"}

\* the lists of the current adapter are complete and are being, or have
\* been, handed to save_jsonl
BatchReady ==
    \/ pc \in {"ensure_dir", "save_queries", "save_corpus"}
    \/ pc = "return" /\ ok

\* both files of the current adapter were written and it returns True
Emitted == pc = "return" /\ ok

DocIds == Range(Ids(corpus))

\* the identity keys of the documents a (well-formed) record refers to
KeysOf(a, item) ==
    CASE a = "sts17" -> {item.sentence2}
      [] a = "squad" -> {item.context}
      [] a = "quora" -> Range(item.questions.text)
      [] a = "nfcorpus" -> IF Has(item, "corpus-id") THEN {item["corpus-id"]} ELSE {}

AllKeys(a) == UNION {KeysOf(a, dataset[k]) : k \in 1..Len(dataset)}

\* the key of the document a record judges relevant
RelKey(a, item) ==
    CASE a = "sts17" -> item.sentence2
      [] a = "squad" -> item.context
      [] a = "quora" -> item.questions.text[2]
      [] a = "nfcorpus" -> item["corpus-id"]

\* the record carries at least one relevance judgment
HasJudgment(a, item) ==
    CASE a = "quora" -> item.is_duplicate
      [] a = "nfcorpus" -> Has(item, "corpus-id")
      [] OTHER -> TRUE

QueryPrefix(a) ==
    CASE a = "sts17" -> "sts17-en-en-"
      [] a = "squad" -> "squad-q-"
      [] a = "quora" -> "quora-pair-"
      [] a = "nfcorpus" -> "nfcorpus-q-"

DocPrefix(a) ==
    CASE a = "sts17" -> "sts17-doc"
      [] a = "squad" -> "squad-doc"
      [] a = "quora" -> "quora-q"
      [] a = "nfcorpus" -> "nfcorpus"

\* the queries emitted for the k-th record (k from 1)
QueriesOf(k) ==
    {queries[n] : n \in {m \in 1..Len(queries) :
                           queries[m].id = QueryPrefix(cur) \o Decimal(k - 1)}}

\* records k1 < k2 that both carry a judgment about the same document key
SameDocPairs ==
    {p \in (1..Len(dataset)) \X (1..Len(dataset)) :
        /\ p[1] < p[2]
        /\ HasJudgment(cur, dataset[p[1]]) /\ HasJudgment(cur, dataset[p[2]])
        /\ RelKey(cur, dataset[p[1]]) = RelKey(cur, dataset[p[2]])}

\* one Document per distinct key, and records with the same key share it
DedupHolds ==
    /\ Len(corpus) = Cardinality(AllKeys(cur))
    /\ \A p \in SameDocPairs :
         \A x \in QueriesOf(p[1]), y \in QueriesOf(p[2]) :
            x.relevantDocs = y.relevantDocs

\* a field the record lacks among query text, document text, document
\* identity and score
LacksQuora(item) ==
    \/ ~Has(item, "questions")
    \/ ~Has(item.questions, "text")
    \/ Len(item.questions.text) < 2
    \/ ~Has(item, "is_duplicate")

Lacks(a, item) ==
    CASE a = "sts17" -> ~({"sentence1", "sentence2", "score"} \subseteq DOMAIN item)
      [] a = "squad" -> ~({"context", "question"} \subseteq DOMAIN item)
      [] a = "quora" -> LacksQuora(item)
      [] a = "nfcorpus" -> ~({"query", "corpus-id", "corpus-text"} \subseteq DOMAIN item)

\* the same, with the two NFCorpus fields the adapter treats as optional left out
LacksRequired(a, item) ==
    IF a = "nfcorpus" THEN ~Has(item, "query") ELSE Lacks(a, item)

Aborted ==
    /\ pc \in {"except", "return"}
    /\ pc = "return" => ~ok
    /\ {QueriesPath(cur), CorpusPath(cur)} \cap files = {}

AllSucceeded ==
    \A a \in Range(Adapters) :
        \E k \in 1..Len(results) : results[k].name = a /\ results[k].success

AnyFailed == \E k \in 1..Len(results) : ~results[k].success

\* main has been entered (the import did not fail)
MainEntered == pc # "import" /\ ~(pc = "exit" /\ cur = "none" /\ results = <<>>)

----------------------------------------------------------------------------
\* Properties

\* C1: referential integrity. In the batch of every adapter, every id in
\* the relevantDocs of every Query is the id of a Document of the corpus.
C1_ReferentialIntegrity ==
    BatchReady =>
        \A k \in 1..Len(queries) :
            Range(queries[k].relevantDocs) \subseteq DocIds

C1_Witness ==
    /\ Emitted /\ cur = "quora"
    /\ Len(queries) = 2 /\ Len(corpus) = 2
    /\ queries[1].relevantDocs # queries[2].relevantDocs

\* C2 as stated: in every adapter there is one Document per distinct
\* identity key, and records naming the same key share one Document id.
C2_DedupEveryAdapter ==
    (BatchReady /\ cur \in Downloads) => DedupHolds

\* C2 amended: the SQuAD, Quora and NFCorpus adapters create one Document
\* per distinct identity key and records naming the same key share its id;
\* the STS17 adapter creates one Document per record, whatever its text.
C2_Dedup ==
    /\ (BatchReady /\ cur \in {"squad", "quora", "nfcorpus"}) => DedupHolds
    /\ (BatchReady /\ cur = "sts17") => Len(corpus) = Len(dataset)

C2_Witness ==
    /\ Emitted /\ cur = "squad"
    /\ Len(dataset) = 2
    /\ dataset[1].context = dataset[2].context
    /\ Len(corpus) = 1
    /\ queries[1].relevantDocs = <<corpus[1].id>>
    /\ queries[2].relevantDocs = <<corpus[1].id>>

\* C3: id uniqueness. In one batch no two Documents share an id and no two
\* Queries share an id.
C3_IdUniqueness ==
    BatchReady => NoDup(Ids(corpus)) /\ NoDup(Ids(queries))

C3_Witness ==
    /\ Emitted /\ cur = "quora"
    /\ Len(dataset) = 3
    /\ \E k \in 1..3 : ~dataset[k].is_duplicate
    /\ Len(queries) = 2
    /\ Len(corpus) = 2

\* C4: alignment. relevantDocs and relevanceScores have the same length and
\* the score at each index is the score of that judgment: the raw STS score
\* divided by five, 1.0 for the binary judgments of the other downloads.
C4_Alignment ==
    BatchReady =>
        /\ \A k \in 1..Len(queries) :
              Len(queries[k].relevantDocs) = Len(queries[k].relevanceScores)
        /\ cur = "sts17" =>
              \A k \in 1..Len(queries) :
                  /\ queries[k].relevantDocs = <<corpus[k].id>>
                  /\ corpus[k].content = dataset[k].sentence2
                  /\ 5 * queries[k].relevanceScores[1] = dataset[k].score
        /\ cur \in {"squad", "quora", "nfcorpus"} =>
              \A k \in 1..Len(queries) :
                  Range(queries[k].relevanceScores) = {100}

C4_Witness ==
    /\ Emitted /\ cur = "sts17"
    /\ Len(queries) = 2
    /\ queries[1].relevanceScores = <<50>>
    /\ queries[2].relevanceScores = <<100>>

\* C5: no-judgment drop. Every emitted Query has a non-empty relevantDocs,
\* and a download emits as many Queries as it read records with a judgment.
C5_NoJudgmentDrop ==
    BatchReady =>
        /\ \A k \in 1..Len(queries) : queries[k].relevantDocs # <<>>
        /\ cur \in Downloads =>
              Len(queries) =
                  Cardinality({k \in 1..Len(dataset) : HasJudgment(cur, dataset[k])})

C5_Witness ==
    /\ Emitted /\ cur = "nfcorpus"
    /\ Len(dataset) = 2
    /\ ~Has(dataset[1], "corpus-id")
    /\ Has(dataset[2], "corpus-id")
    /\ Len(queries) = 1

\* C6: failure isolation. Whatever fails inside an adapter, main runs all
\* five adapters in order and exits with a result recorded for each.
C6_FailureIsolation ==
    (pc = "exit" /\ MainEntered) =>
        [k \in 1..Len(results) |-> results[k].name] = Adapters

\* C7: exit status. The status is 0 exactly when all five adapters reported
\* success, and 1 when some adapter reported failure.
C7_ExitStatus ==
    pc = "exit" =>
        /\ exit_status = 0 <=> AllSucceeded
        /\ AnyFailed => exit_status = 1

C7_Witness ==
    /\ pc = "exit" /\ exit_status = 1
    /\ Len(results) = 5
    /\ \A k \in 1..4 : results[k].success
    /\ ~results[5].success

\* C8 as stated: in every download adapter a record lacking query text,
\* document text, document identity or score aborts the adapter: nothing is
\* written and the result is failure.
C8_FailFastEveryAdapter ==
    (cur \in Downloads /\ \E k \in 1..Len(dataset) : Lacks(cur, dataset[k]))
        => /\ ~BatchReady
           /\ {QueriesPath(cur), CorpusPath(cur)} \cap files = {}

\* C8 amended: the same for STS17, SQuAD and Quora, and for a NFCorpus
\* record without a query; a NFCorpus record without corpus-id is skipped
\* (no Query, no Document) and one without corpus-text gets the content
\* "Document <id>", and in both cases the run goes on.
C8_FailFast ==
    /\ (cur \in Downloads /\ \E k \in 1..Len(dataset) : LacksRequired(cur, dataset[k]))
          => Aborted
    /\ (cur = "nfcorpus" /\ BatchReady) =>
          \A k \in 1..Len(dataset) :
              /\ ~Has(dataset[k], "corpus-id") => QueriesOf(k) = {}
              /\ (/\ Has(dataset[k], "corpus-id")
                  /\ ~Has(dataset[k], "corpus-text")
                  /\ \A m \in 1..(k - 1) : KeysOf(cur, dataset[m]) # KeysOf(cur, dataset[k]))
                    => \E n \in 1..Len(corpus) :
                          /\ corpus[n].id = "nfcorpus-" \o dataset[k]["corpus-id"]
                          /\ corpus[n].content = "Document " \o corpus[n].id

C8_Witness ==
    /\ pc = "return" /\ cur = "squad" /\ ~ok
    /\ Len(dataset) = 2
    /\ ~Lacks(cur, dataset[1])
    /\ ~Has(dataset[2], "question")

\* C9 as stated: in every download the k-th Document of the corpus (k from
\* 0) has the id "<prefix>-k", whatever the identity keys are.
C9_CounterIdsEveryAdapter ==
    cur \in Downloads =>
        \A k \in 1..Len(corpus) :
            corpus[k].id = DocPrefix(cur) \o "-" \o Decimal(k - 1)

\* C9 amended: that holds in STS17, SQuAD and Quora; a NFCorpus Document id
\* is "nfcorpus-" followed by the record's corpus-id, so it does depend on
\* the identity key's value.
C9_DocumentIds ==
    /\ cur \in {"sts17", "squad", "quora"} =>
          \A k \in 1..Len(corpus) :
              corpus[k].id = DocPrefix(cur) \o "-" \o Decimal(k - 1)
    /\ cur = "nfcorpus" =>
          \A k \in 1..Len(corpus) :
              \E key \in AllKeys(cur) : corpus[k].id = "nfcorpus-" \o key

C9_Witness ==
    /\ Emitted /\ cur = "squad"
    /\ Len(dataset) = 3
    /\ dataset[1].context = dataset[2].context
    /\ Len(corpus) = 2
    /\ corpus[2].id = "squad-doc-1"
    /\ queries[3].relevantDocs = <<"squad-doc-1">>

\* C10: first-seen wins. A loop turn never changes a Document already in the
\* corpus; when every key of the record is already in the dedup table the
\* corpus stays as it is, and (SQuAD, NFCorpus) exactly one Query is appended.
C10_FirstSeenWins ==
    [][(pc = "loop" /\ pc' = "loop" /\ Len(dataset') = Len(dataset) + 1) =>
        LET item == dataset'[Len(dataset')]
            known == CASE cur = "squad" -> item.context \in DOMAIN seen
                       [] cur = "nfcorpus" ->
                            /\ Has(item, "corpus-id")
                            /\ ("nfcorpus-" \o item["corpus-id"]) \in DOMAIN seen
                       [] cur = "quora" -> Range(item.questions.text) \subseteq DOMAIN seen
                       [] OTHER -> FALSE
        IN  /\ Len(corpus') >= Len(corpus)
            /\ SubSeq(corpus', 1, Len(corpus)) = corpus
            /\ known => corpus' = corpus /\ seen' = seen
            /\ (known /\ cur \in {"squad", "nfcorpus"}) =>
                  /\ Len(queries') = Len(queries) + 1
                  /\ SubSeq(queries', 1, Len(queries)) = queries
                  /\ queries'[Len(queries')].relevantDocs =
                        IF cur = "squad" THEN <<seen[item.context]>>
                        ELSE <<"nfcorpus-" \o item["corpus-id"]>>
      ]_vars

C10_Witness ==
    /\ pc = "loop" /\ cur = "nfcorpus"
    /\ Len(dataset) = 2
    /\ Has(dataset[1], "corpus-id") /\ Has(dataset[2], "corpus-id")
    /\ Has(dataset[1], "corpus-text") /\ Has(dataset[2], "corpus-text")
    /\ dataset[1]["corpus-id"] = dataset[2]["corpus-id"]
    /\ dataset[1]["corpus-text"] # dataset[2]["corpus-text"]
    /\ Len(corpus) = 1
    /\ corpus[1].content = dataset[1]["corpus-text"]
    /\ Len(queries) = 2
====
